---- MODULE Spec2Model ----
(***************************************************************************)
(* The board connectivity and rules engine of the game of Y (crate gamey): *)
(* TriangularTopology, GameEngine (union-find with region masks) and the   *)
(* GameY state machine.  Vectors are functions over 0..n-1 (the indices    *)
(* the code uses); Option<T> is the empty set (None) or a singleton        *)
(* (Some).                                                                 *)
(***************************************************************************)
EXTENDS Integers, Sequences, FiniteSets, TLC

\* ---------------------------------------------------------------- bounds
\* Board sizes the games are constructed with (GameY::new(board_size)).
BoardSizes == {1, 2, 3}
\* Longest move history explored (number of successful add_move calls).
MaxMoves == 3
\* Longest run of successful GameEngine::make_move calls explored.
MaxEngineMoves == 4
\* Longest run of make_move calls after which every neighbour order is tried.
MaxOrderMoves == 3
\* Number of requests sent to the server.
MaxRequests == 3
\* reiniciar_juego creates GameY::new(5).
ResetBoardSize == 5
\* Longest game of placements only explored.
MaxPlacements == 6
\* Longest game of placements explored with encoding and decoding in between.
MaxRoundTripMoves == 4
\* Longest arbitrary layout string given to the decoder.
MaxLayoutLen == 4
\* Largest board whose topology is explored.
MaxTopologySize == 6

Players == {0, 1}

\* ---------------------------------------------------------------- Option
None == {}
Some(v) == {v}
is_some(o) == o # {}
unwrap(o) == CHOOSE v \in o : TRUE

\* ---------------------------------------------------------------- Vec
VLen(v) == Cardinality(DOMAIN v)
VPush(v, e) == [i \in 0 .. VLen(v) |-> IF i < VLen(v) THEN v[i] ELSE e]

\* ---------------------------------------------------------------- u32 masks
RECURSIVE BitOr(_, _)
BitOr(a, b) ==
    IF a = 0 THEN b
    ELSE IF b = 0 THEN a
    ELSE (IF a % 2 = 1 \/ b % 2 = 1 THEN 1 ELSE 0) + 2 * BitOr(a \div 2, b \div 2)

RECURSIVE BitAnd(_, _)
BitAnd(a, b) ==
    IF a = 0 \/ b = 0 THEN 0
    ELSE (IF a % 2 = 1 /\ b % 2 = 1 THEN 1 ELSE 0) + 2 * BitAnd(a \div 2, b \div 2)

\* ---------------------------------------------------------------- Coordinates
\* Coordinates (x, y, z) with x + y + z = size - 1.
Coordinates_new(x, y, z) == [x |-> x, y |-> y, z |-> z]

\* an index that orders the cells of a row by decreasing y
to_index_rows_by_decreasing_y(c, size) ==
    LET r == size - 1 - c.x IN (r * (r + 1)) \div 2 + (r - c.y)

\* Rows by decreasing x; row r = size-1-x has r+1 cells ordered by increasing y.
to_index(c, size) ==
    LET r == size - 1 - c.x IN (r * (r + 1)) \div 2 + c.y

RECURSIVE RowOf(_, _)
RowOf(idx, r) == IF ((r + 1) * (r + 2)) \div 2 > idx THEN r ELSE RowOf(idx, r + 1)

from_index(idx, size) ==
    LET r == RowOf(idx, 0)
        y == idx - (r * (r + 1)) \div 2
        x == size - 1 - r
    IN  Coordinates_new(x, y, size - 1 - x - y)

touches_side_a(c) == c.x = 0
touches_side_b(c) == c.y = 0
touches_side_c(c) == c.z = 0

\* ---------------------------------------------------------------- TriangularTopology
SIDE_A == 1
SIDE_B == 2
SIDE_C == 4

total_cells(size) == (size * (size + 1)) \div 2

\* regions[idx] with the bits of side A and side B exchanged
get_cell_regions_sides_exchanged(size, cell) ==
    LET coords == from_index(cell, size)
        m1 == IF touches_side_a(coords) THEN SIDE_B ELSE 0
        m2 == IF touches_side_b(coords) THEN BitOr(m1, SIDE_A) ELSE m1
    IN  IF touches_side_c(coords) THEN BitOr(m2, SIDE_C) ELSE m2

\* regions[idx] as computed by TriangularTopology::new
get_cell_regions(size, cell) ==
    LET coords == from_index(cell, size)
        m0 == 0
        m1 == IF touches_side_a(coords) THEN BitOr(m0, SIDE_A) ELSE m0
        m2 == IF touches_side_b(coords) THEN BitOr(m1, SIDE_B) ELSE m1
        m3 == IF touches_side_c(coords) THEN BitOr(m2, SIDE_C) ELSE m2
    IN  m3

\* adjacency[idx] without the two neighbours pushed when z > 0
get_neighbors_without_z_step(size, cell) ==
    LET coords == from_index(cell, size)
        x == coords.x
        y == coords.y
        z == coords.z
        nx == IF x > 0
              THEN << Coordinates_new(x - 1, y + 1, z), Coordinates_new(x - 1, y, z + 1) >>
              ELSE << >>
        ny == IF y > 0
              THEN << Coordinates_new(x + 1, y - 1, z), Coordinates_new(x, y - 1, z + 1) >>
              ELSE << >>
        neighbors == nx \o ny
    IN  [k \in 1 .. Len(neighbors) |-> to_index(neighbors[k], size)]

\* adjacency[idx] with the first neighbour of the y > 0 branch pushed twice
get_neighbors_repeats_one(size, cell) ==
    LET coords == from_index(cell, size)
        x == coords.x
        y == coords.y
        z == coords.z
        nx == IF x > 0
              THEN << Coordinates_new(x - 1, y + 1, z), Coordinates_new(x - 1, y, z + 1) >>
              ELSE << >>
        ny == IF y > 0
              THEN << Coordinates_new(x + 1, y - 1, z), Coordinates_new(x + 1, y - 1, z),
                      Coordinates_new(x, y - 1, z + 1) >>
              ELSE << >>
        nz == IF z > 0
              THEN << Coordinates_new(x + 1, y, z - 1), Coordinates_new(x, y + 1, z - 1) >>
              ELSE << >>
        neighbors == nx \o ny \o nz
    IN  [k \in 1 .. Len(neighbors) |-> to_index(neighbors[k], size)]

\* adjacency[idx] as computed by TriangularTopology::new, in push order
get_neighbors(size, cell) ==
    LET coords == from_index(cell, size)
        x == coords.x
        y == coords.y
        z == coords.z
        nx == IF x > 0
              THEN << Coordinates_new(x - 1, y + 1, z), Coordinates_new(x - 1, y, z + 1) >>
              ELSE << >>
        ny == IF y > 0
              THEN << Coordinates_new(x + 1, y - 1, z), Coordinates_new(x, y - 1, z + 1) >>
              ELSE << >>
        nz == IF z > 0
              THEN << Coordinates_new(x + 1, y, z - 1), Coordinates_new(x, y + 1, z - 1) >>
              ELSE << >>
        neighbors == nx \o ny \o nz
    IN  [k \in 1 .. Len(neighbors) |-> to_index(neighbors[k], size)]

\* a winning mask that leaves side C out
winning_mask_two_sides == BitOr(SIDE_A, SIDE_B)

winning_mask == BitOr(BitOr(SIDE_A, SIDE_B), SIDE_C)

\* ---------------------------------------------------------------- GameEngine
DisjointSet(parent, regions_touched) ==
    [parent |-> parent, regions_touched |-> regions_touched]

GameEngine_new(size) ==
    [ size         |-> size,
      state        |-> [c \in 0 .. total_cells(size) - 1 |-> None],
      sets         |-> << >>,
      cell_set_map |-> [c \in 0 .. total_cells(size) - 1 |-> None] ]

\* find that returns the root and re-parents nothing
find_without_compression(r, i) == r

\* find, line 97: i is re-parented to the root found for its parent
find_compress(r, i) ==
    [root |-> r.root, sets |-> [r.sets EXCEPT ![i].parent = r.root]]

\* find with path compression: the root of i and the sets after compression
RECURSIVE find(_, _)
find(sets, i) ==
    IF sets[i].parent = i
    THEN [root |-> i, sets |-> sets]
    ELSE find_compress(find(sets, sets[i].parent), i)

\* union in which root_i takes the mask of root_j in place of both
union_join_takes_other_regions(sets, root_i, root_j) ==
    IF root_i # root_j
    THEN [sets EXCEPT ![root_j].parent = root_i,
                      ![root_i].regions_touched = sets[root_j].regions_touched]
    ELSE sets

\* union that re-parents root_j but forgets to merge the regions touched
union_join_keeps_regions(sets, root_i, root_j) ==
    IF root_i # root_j
    THEN [sets EXCEPT ![root_j].parent = root_i]
    ELSE sets

\* union, lines 108-113: root_j goes under root_i, which takes both masks
union_join(sets, root_i, root_j) ==
    IF root_i # root_j
    THEN [sets EXCEPT ![root_j].parent = root_i,
                      ![root_i].regions_touched =
                          BitOr(sets[root_i].regions_touched, sets[root_j].regions_touched)]
    ELSE sets

\* union, lines 116-117: does root_i's mask cover the winning mask
union_check(sets, root_i) ==
    [won |-> BitAnd(sets[root_i].regions_touched, winning_mask) = winning_mask,
     sets |-> sets]

union_roots(root_i, fj) == union_check(union_join(fj.sets, root_i, fj.root), root_i)

union_from(fi, j) == union_roots(fi.root, find(fi.sets, j))

\* union(i, j): find both roots (compressing), join, check
union(sets, i, j) == union_from(find(sets, i), j)

\* `if self.union(..) { won = true; }` accumulated over the rest of the loop
connect_result(won, rest) == [won |-> won \/ rest.won, sets |-> rest.sets]

\* the loop over the neighbours of the placed cell (step 3 of make_move); it runs
\* through every neighbour, also after a union has reported the win
RECURSIVE connect_neighbors(_, _, _, _, _, _, _)
\* the loop step with a `break` after the union that reports the win
connect_step_breaks_on_win(state, cell_set_map, u, neighbors, k, player, new_set_idx) ==
    IF u.won THEN u
    ELSE connect_result(u.won,
                        connect_neighbors(state, cell_set_map, u.sets, neighbors, k + 1,
                                          player, new_set_idx))

connect_step(state, cell_set_map, u, neighbors, k, player, new_set_idx) ==
    connect_result(u.won,
                   connect_neighbors(state, cell_set_map, u.sets, neighbors, k + 1,
                                     player, new_set_idx))

\* the loop without the `p == player` test of line 69
connect_neighbors_any_player(state, cell_set_map, sets, neighbors, k, player, new_set_idx) ==
    IF k > Len(neighbors)
    THEN [won |-> FALSE, sets |-> sets]
    ELSE IF is_some(state[neighbors[k]])
    THEN connect_step(state, cell_set_map,
                      union(sets, new_set_idx, unwrap(cell_set_map[neighbors[k]])),
                      neighbors, k, player, new_set_idx)
    ELSE connect_neighbors(state, cell_set_map, sets, neighbors, k + 1, player, new_set_idx)

connect_neighbors(state, cell_set_map, sets, neighbors, k, player, new_set_idx) ==
    IF k > Len(neighbors)
    THEN [won |-> FALSE, sets |-> sets]
    ELSE IF is_some(state[neighbors[k]]) /\ unwrap(state[neighbors[k]]) = player
    THEN connect_step(state, cell_set_map,
                      union(sets, new_set_idx, unwrap(cell_set_map[neighbors[k]])),
                      neighbors, k, player, new_set_idx)
    ELSE connect_neighbors(state, cell_set_map, sets, neighbors, k + 1, player, new_set_idx)

\* lines 80-85: when no union won, the root of the new piece is looked up
\* (compressing) and its mask compared with the winning mask
single_piece_check(f) ==
    [won |-> BitAnd(f.sets[f.root].regions_touched, winning_mask) = winning_mask,
     sets |-> f.sets]

make_move_decide(loop, new_set_idx) ==
    IF loop.won THEN loop ELSE single_piece_check(find(loop.sets, new_set_idx))

\* make_move that does not record the node of the placed cell (line 60 left out)
make_move_result_unmapped(e, state1, map1, d) ==
    [kind |-> "Ok", won |-> d.won,
     engine |-> [e EXCEPT !.state = state1, !.sets = d.sets]]

make_move_result(e, state1, map1, d) ==
    [kind |-> "Ok", won |-> d.won,
     engine |-> [e EXCEPT !.state = state1, !.sets = d.sets, !.cell_set_map = map1]]

\* steps 2-4 of make_move with the neighbours visited in the given order
make_move_joined(e, cell, player, state1, map1, new_set_idx, neighbors) ==
    make_move_result(e, state1, map1,
        make_move_decide(
            connect_neighbors(state1, map1,
                              VPush(e.sets, DisjointSet(new_set_idx,
                                                        get_cell_regions(e.size, cell))),
                              neighbors, 1, player, new_set_idx),
            new_set_idx))

\* line 64: the neighbours are visited in the order of the adjacency list
make_move_placed(e, cell, player, state1, map1, new_set_idx) ==
    make_move_joined(e, cell, player, state1, map1, new_set_idx,
                     get_neighbors(e.size, cell))

\* steps 1-4 of make_move: place the piece, create its set, join the neighbours, decide
make_move_apply(e, cell, player) ==
    make_move_placed(e, cell, player,
                     [e.state EXCEPT ![cell] = Some(player)],
                     [e.cell_set_map EXCEPT ![cell] = Some(VLen(e.sets))],
                     VLen(e.sets))

\* make_move without the occupancy check of line 46
make_move_unchecked(e, cell, player) ==
    IF cell >= total_cells(e.size)
    THEN [kind |-> "OutOfBounds", won |-> FALSE, engine |-> e]
    ELSE make_move_apply(e, cell, player)

make_move(e, cell, player) ==
    IF cell >= total_cells(e.size)
    THEN [kind |-> "OutOfBounds", won |-> FALSE, engine |-> e]
    ELSE IF is_some(e.state[cell])
    THEN [kind |-> "Occupied", won |-> FALSE, engine |-> e]
    ELSE make_move_apply(e, cell, player)

\* ---------------------------------------------------------------- state
VARIABLES board_size, engine, status, history, available_cells, last, mutex, requests

vars == << board_size, engine, status, history, available_cells, last, mutex, requests >>

\* ---------------------------------------------------------------- GameY
Ongoing(p) == [kind |-> "Ongoing", next_player |-> p]
Finished(p) == [kind |-> "Finished", winner |-> p]

Placement(player, coords) == [kind |-> "Placement", player |-> player, coords |-> coords]
Action(player, action) == [kind |-> "Action", player |-> player, action |-> action]

Ok == [kind |-> "Ok"]
\* GameYError::Occupied (the payload, the rejected coordinates and player, is the input)
Occupied(coords, player) == [kind |-> "Occupied"]
InvalidPlayerTurn(expected, found) ==
    [kind |-> "InvalidPlayerTurn", expected |-> expected, found |-> found]

other_player(player) == IF player = 0 THEN 1 ELSE 0

GameY_new(size) ==
    [ board_size      |-> size,
      engine          |-> GameEngine_new(size),
      history         |-> << >>,
      status          |-> Ongoing(0),
      available_cells |-> [k \in 1 .. total_cells(size) |-> k - 1] ]

check_game_over(g) == g.status.kind = "Finished"

\* check_player_turn with the two fields of the error filled the wrong way round
check_player_turn_swapped(g, movement) ==
    IF g.status.kind = "Ongoing" /\ movement.player # g.status.next_player
    THEN InvalidPlayerTurn(movement.player, g.status.next_player)
    ELSE Ok

check_player_turn(g, movement) ==
    IF g.status.kind = "Ongoing" /\ movement.player # g.status.next_player
    THEN InvalidPlayerTurn(g.status.next_player, movement.player)
    ELSE Ok

\* validate_placement that turns the game-over log line into a rejection
validate_placement_rejects_finished(g, player, coords) ==
    LET idx == to_index(coords, g.board_size) IN
    IF check_game_over(g) \/ is_some(g.engine.state[idx])
    THEN Occupied(coords, player)
    ELSE Ok

validate_placement(g, player, coords) ==
    LET idx == to_index(coords, g.board_size) IN
    IF is_some(g.engine.state[idx]) THEN Occupied(coords, player) ELSE Ok

\* update_status_after_placement without the check_game_over of line 182
update_status_ignores_game_over(g, player, won) ==
    IF won THEN [g EXCEPT !.status = Finished(player)]
    ELSE [g EXCEPT !.status = Ongoing(other_player(player))]

\* update_status_after_placement that hands the turn back to the placing player
update_status_keeps_turn(g, player, won) ==
    IF check_game_over(g) THEN g
    ELSE IF won THEN [g EXCEPT !.status = Finished(player)]
    ELSE [g EXCEPT !.status = Ongoing(player)]

update_status_after_placement(g, player, won) ==
    IF check_game_over(g) THEN g
    ELSE IF won THEN [g EXCEPT !.status = Finished(player)]
    ELSE [g EXCEPT !.status = Ongoing(other_player(player))]

\* available_cells.retain(|&x| x != idx)
RECURSIVE retain_ne(_, _)
retain_ne(cells, idx) ==
    IF cells = << >> THEN << >>
    ELSE IF Head(cells) # idx
    THEN << Head(cells) >> \o retain_ne(Tail(cells), idx)
    ELSE retain_ne(Tail(cells), idx)

\* the Ok arm of handle_placement without the available_cells.retain of line 157
placement_made_keeps_cell(g, player, coords, idx, r) ==
    IF r.kind = "Ok"
    THEN [ret |-> Ok,
          game |-> update_status_after_placement([g EXCEPT !.engine = r.engine],
                                                 player, r.won)]
    ELSE [ret |-> Occupied(coords, player), game |-> g]

\* handle_placement, lines 155-177: the match on the engine's result r
placement_made(g, player, coords, idx, r) ==
    IF r.kind = "Ok"
    THEN [ret |-> Ok,
          game |-> update_status_after_placement(
                      [g EXCEPT !.engine = r.engine,
                                !.available_cells = retain_ne(g.available_cells, idx)],
                      player, r.won)]
    ELSE [ret |-> Occupied(coords, player), game |-> g]

placement_validated(g, player, coords, v, idx) ==
    IF v.kind # "Ok" THEN [ret |-> v, game |-> g]
    ELSE placement_made(g, player, coords, idx, make_move(g.engine, idx, player))

handle_placement(g, player, coords) ==
    placement_validated(g, player, coords, validate_placement(g, player, coords),
                        to_index(coords, g.board_size))

\* handle_action where the resigning player is recorded as the winner
handle_action_resigner_wins(g, player, action) ==
    IF action = "Resign"
    THEN [g EXCEPT !.status = Finished(player)]
    ELSE [g EXCEPT !.status = Ongoing(other_player(player))]

handle_action(g, player, action) ==
    IF action = "Resign"
    THEN [g EXCEPT !.status = Finished(other_player(player))]
    ELSE [g EXCEPT !.status = Ongoing(other_player(player))]

\* add_move that puts the movement in front of the history
push_history_front(r, movement) ==
    IF r.ret.kind # "Ok" THEN r
    ELSE [ret |-> Ok, game |-> [r.game EXCEPT !.history = << movement >> \o r.game.history]]

\* add_move that drops the `?` and pushes the movement whatever the handler returned
push_history_always(r, movement) ==
    [ret |-> r.ret, game |-> [r.game EXCEPT !.history = Append(r.game.history, movement)]]

\* add_move, lines 139 and 145: `?` returns the handler's error, else the push
push_history(r, movement) ==
    IF r.ret.kind # "Ok" THEN r
    ELSE [ret |-> Ok, game |-> [r.game EXCEPT !.history = Append(r.game.history, movement)]]

add_move(g, movement) ==
    push_history(IF movement.kind = "Placement"
                 THEN handle_placement(g, movement.player, movement.coords)
                 ELSE [ret |-> Ok,
                       game |-> handle_action(g, movement.player, movement.action)],
                 movement)

\* ---------------------------------------------------------------- YEN
\* A layout is the sequence of the characters of the layout string.
YEN_new(size, turn, players, layout) ==
    [size |-> size, turn |-> turn, players |-> players, layout |-> layout]

InvalidYENLayout(expected, found) ==
    [kind |-> "InvalidYENLayout", expected |-> expected, found |-> found]
InvalidYENLayoutLine(expected, found, line) ==
    [kind |-> "InvalidYENLayoutLine", expected |-> expected, found |-> found, line |-> line]
InvalidCharInLayout(char, row, col) ==
    [kind |-> "InvalidCharInLayout", char |-> char, row |-> row, col |-> col]

\* str::split(sep): the pieces between the separators, one more than separators
split_cons(c, rest) == << << c >> \o Head(rest) >> \o Tail(rest)

RECURSIVE split(_, _)
split(str, sep) ==
    IF str = << >> THEN << << >> >>
    ELSE IF Head(str) = sep THEN << << >> >> \o split(Tail(str), sep)
    ELSE split_cons(Head(str), split(Tail(str), sep))

\* From<&GameY> for YEN, lines 387-391, with the tags of the two players exchanged
cell_char_exchanged(player) ==
    IF is_some(player) /\ unwrap(player) = 0 THEN "R"
    ELSE IF is_some(player) /\ unwrap(player) = 1 THEN "B"
    ELSE "."

\* From<&GameY> for YEN, lines 387-391: the character of a cell
cell_char(player) ==
    IF is_some(player) /\ unwrap(player) = 0 THEN "B"
    ELSE IF is_some(player) /\ unwrap(player) = 1 THEN "R"
    ELSE "."

\* lines 396-399: the separator that follows the last cell of a row but the last
row_separator(coords) == IF coords.z = 0 /\ coords.x > 0 THEN << "/" >> ELSE << >>

\* lines 385-400: the layout string, built cell by cell from idx on
RECURSIVE encode_layout(_, _)
encode_layout(g, idx) ==
    IF idx >= total_cells(g.board_size) THEN << >>
    ELSE << cell_char(g.engine.state[idx]) >>
         \o row_separator(from_index(idx, g.board_size))
         \o encode_layout(g, idx + 1)

\* the turn indicator that names the winner of a finished game
encode_turn_names_winner(g) ==
    IF g.status.kind = "Finished" THEN g.status.winner ELSE g.status.next_player

\* lines 378-381: the turn indicator
encode_turn(g) ==
    IF g.status.kind = "Finished"
    THEN other_player(g.status.winner)
    ELSE g.status.next_player

\* From<&GameY> for YEN
YEN_from(g) == YEN_new(g.board_size, encode_turn(g), << "B", "R" >>, encode_layout(g, 0))

\* lines 348-351 and 354-357: add_move(..)? inside the loop over the cells of a row
RECURSIVE decode_cells(_, _, _, _, _)
decode_placed(r, size, row, cells, col) ==
    IF r.ret.kind # "Ok" THEN r
    ELSE decode_cells(r.game, size, row, cells, col + 1)

\* the coordinates of the character at (row, col), lines 342-345
decode_coords(size, row, col) ==
    Coordinates_new(size - 1 - row, col, size - 1 - (size - 1 - row) - col)

\* lines 341-368: the characters of one row, from column col on (cells is 1-based)
decode_cells(g, size, row, cells, col) ==
    IF col >= Len(cells) THEN [ret |-> Ok, game |-> g]
    ELSE IF cells[col + 1] = "B"
    THEN decode_placed(add_move(g, Placement(0, decode_coords(size, row, col))),
                       size, row, cells, col)
    ELSE IF cells[col + 1] = "R"
    THEN decode_placed(add_move(g, Placement(1, decode_coords(size, row, col))),
                       size, row, cells, col)
    ELSE IF cells[col + 1] = "."
    THEN decode_cells(g, size, row, cells, col + 1)
    ELSE [ret |-> InvalidCharInLayout(cells[col + 1], row, col), game |-> g]

\* lines 332-369: the rows, from row on (rows is 1-based)
RECURSIVE decode_rows(_, _, _, _)
decode_row_done(r, size, rows, row) ==
    IF r.ret.kind # "Ok" THEN r
    ELSE decode_rows(r.game, size, rows, row + 1)

\* decode_rows that checks every character of a row before the length of the row
decode_rows_chars_first(g, size, rows, row) ==
    IF row >= Len(rows) THEN [ret |-> Ok, game |-> g]
    ELSE IF \E k \in 1 .. Len(rows[row + 1]) : rows[row + 1][k] \notin {"B", "R", "."}
    THEN [ret |-> InvalidCharInLayout("?", row, 0), game |-> g]
    ELSE IF Len(rows[row + 1]) # row + 1
    THEN [ret |-> InvalidYENLayoutLine(row + 1, Len(rows[row + 1]), row), game |-> g]
    ELSE decode_row_done(decode_cells(g, size, row, rows[row + 1], 0), size, rows, row)

decode_rows(g, size, rows, row) ==
    IF row >= Len(rows) THEN [ret |-> Ok, game |-> g]
    ELSE IF Len(rows[row + 1]) # row + 1
    THEN [ret |-> InvalidYENLayoutLine(row + 1, Len(rows[row + 1]), row), game |-> g]
    ELSE decode_row_done(decode_cells(g, size, row, rows[row + 1], 0), size, rows, row)

\* lines 325-331: the row count, then the rows
decode_layout(ygame, size, rows) ==
    IF Len(rows) # size
    THEN [ret |-> InvalidYENLayout(size, Len(rows)), game |-> ygame]
    ELSE decode_rows(ygame, size, rows, 0)

\* a decoder that hands the turn of the record to the game it returns
try_from_restores_turn(yen) ==
    LET r == decode_layout(GameY_new(yen.size), yen.size, split(yen.layout, "/"))
    IN  IF r.ret.kind = "Ok" /\ r.game.status.kind = "Ongoing"
        THEN [ret |-> r.ret, game |-> [r.game EXCEPT !.status = Ongoing(yen.turn)]]
        ELSE r

\* TryFrom<YEN> for GameY: the result, and the game built so far (returned on Ok)
try_from(yen) == decode_layout(GameY_new(yen.size), yen.size, split(yen.layout, "/"))

\* ---------------------------------------------------------------- inputs
Cells(size) == 0 .. total_cells(size) - 1
CoordsOf(size) == {from_index(c, size) : c \in Cells(size)}
GameActions == {"Resign", "Swap"}
Placements(size) == {Placement(p, c) : p \in Players, c \in CoordsOf(size)}
Actions == {Action(p, a) : p \in Players, a \in GameActions}
Movements(size) == Placements(size) \cup Actions

\* ---------------------------------------------------------------- the game
game ==
    [ board_size      |-> board_size,
      engine          |-> engine,
      history         |-> history,
      status          |-> status,
      available_cells |-> available_cells ]

SetGame(g) ==
    /\ board_size' = g.board_size
    /\ engine' = g.engine
    /\ history' = g.history
    /\ status' = g.status
    /\ available_cells' = g.available_cells

\* the last call made and what it returned
Call(op, ret) == [op |-> op, ret |-> ret]

Init ==
    \E size \in BoardSizes :
        /\ board_size = size
        /\ engine = GameEngine_new(size)
        /\ history = << >>
        /\ status = Ongoing(0)
        /\ available_cells = [k \in 1 .. total_cells(size) |-> k - 1]
        /\ last = Call("new", Ok)
        /\ mutex = None
        /\ requests = << >>

\* GameY::add_move(movement)
AddMove ==
    \E movement \in Movements(board_size) :
        \E r \in {add_move(game, movement)} :
        /\ r.ret.kind = "Ok" => Len(history) < MaxMoves
        /\ SetGame(r.game)
        /\ UNCHANGED << mutex, requests >>
        /\ last' = Call("add_move", r.ret)

\* GameY::check_player_turn(movement)
CheckPlayerTurn ==
    \E movement \in Movements(board_size) :
        /\ UNCHANGED << mutex, requests >>
        /\ last' = Call("check_player_turn", check_player_turn(game, movement))
        /\ UNCHANGED << board_size, engine, status, history, available_cells >>

Next == AddMove \/ CheckPlayerTurn

Spec == Init /\ [][Next]_vars

\* ---------------------------------------------------------------- placements only
\* A game driven only by successful placements of players 0 and 1.
AddPlacement ==
    \E movement \in Placements(board_size) :
        \E r \in {add_move(game, movement)} :
        /\ r.ret.kind = "Ok"
        /\ Len(history) < MaxPlacements
        /\ SetGame(r.game)
        /\ UNCHANGED << mutex, requests >>
        /\ last' = Call("add_move", r.ret)

NextPlacements == AddPlacement

SpecPlacements == Init /\ [][NextPlacements]_vars

\* ---------------------------------------------------------------- the engine alone
\* GameEngine::make_move(cell, player), called directly on an engine
MakeMove ==
    \E cell \in 0 .. total_cells(board_size), player \in Players :
        \E r \in {make_move(engine, cell, player)} :
        /\ r.kind = "Ok" => VLen(engine.sets) < MaxEngineMoves
        /\ engine' = r.engine
        /\ UNCHANGED << mutex, requests >>
        /\ last' = Call("make_move", [kind |-> r.kind, won |-> r.won])
        /\ UNCHANGED << board_size, status, history, available_cells >>

NextEngine == MakeMove

SpecEngine == Init /\ [][NextEngine]_vars

\* the engine alone, on the shorter runs on which every visiting order is compared
MakeMoveShortRun ==
    \E cell \in 0 .. total_cells(board_size), player \in Players :
        \E r \in {make_move(engine, cell, player)} :
        /\ r.kind = "Ok" => VLen(engine.sets) < MaxOrderMoves
        /\ engine' = r.engine
        /\ UNCHANGED << mutex, requests >>
        /\ last' = Call("make_move", [kind |-> r.kind, won |-> r.won])
        /\ UNCHANGED << board_size, status, history, available_cells >>

NextNeighborOrder == MakeMoveShortRun

SpecNeighborOrder == Init /\ [][NextNeighborOrder]_vars

\* ---------------------------------------------------------------- save and load
\* From<&GameY> for YEN: the game is encoded (save_to_file, the server's replies)
IntoYen ==
    /\ last.op # "into_yen"
    /\ UNCHANGED << mutex, requests >>
    /\ last' = Call("into_yen", YEN_from(game))
    /\ UNCHANGED << board_size, engine, status, history, available_cells >>

\* TryFrom<YEN> for GameY applied to the record just encoded (load_from_file)
TryFromEncoded ==
    /\ last.op = "into_yen"
    /\ \E r \in {try_from(last.ret)} :
          /\ SetGame(IF r.ret.kind = "Ok" THEN r.game ELSE game)
          /\ UNCHANGED << mutex, requests >>
          /\ last' = Call("try_from", [yen |-> last.ret, ret |-> r.ret])

\* a game of placements that is encoded and decoded at any point
AddRoundTripPlacement ==
    \E movement \in Placements(board_size) :
        \E r \in {add_move(game, movement)} :
        /\ r.ret.kind = "Ok"
        /\ Len(history) < MaxRoundTripMoves
        /\ SetGame(r.game)
        /\ UNCHANGED << mutex, requests >>
        /\ last' = Call("add_move", r.ret)

NextRoundTrip == AddRoundTripPlacement \/ IntoYen \/ TryFromEncoded

SpecRoundTrip == Init /\ [][NextRoundTrip]_vars

\* ---------------------------------------------------------------- decoding any record
LayoutChars == {"B", "R", ".", "/", "X"}
\* every string of at most MaxLayoutLen characters
ShortLayouts == UNION {[1 .. n -> LayoutChars] : n \in 0 .. MaxLayoutLen}

\* the layout string of a board filled with the characters f[cell]: rows joined by '/'
RECURSIVE JoinRows(_, _, _)
JoinRows(f, size, r) ==
    IF r >= size THEN << >>
    ELSE (IF r > 0 THEN << "/" >> ELSE << >>)
         \o [k \in 1 .. r + 1 |-> f[(r * (r + 1)) \div 2 + k - 1]]
         \o JoinRows(f, size, r + 1)

\* every layout of the right shape over 'B', 'R' and '.'
WellFormedLayouts(size) == {JoinRows(f, size, 0) : f \in [Cells(size) -> {"B", "R", "."}]}

YenInputs ==
    {YEN_new(size, turn, << "B", "R" >>, layout) :
        size \in BoardSizes, turn \in Players,
        layout \in ShortLayouts \cup UNION {WellFormedLayouts(n) : n \in BoardSizes}}

\* a YEN record arrives; try_from starts from GameY::new(game.size()) (line 324)
InitYen ==
    \E yen \in YenInputs :
        /\ board_size = yen.size
        /\ engine = GameEngine_new(yen.size)
        /\ history = << >>
        /\ status = Ongoing(0)
        /\ available_cells = [k \in 1 .. total_cells(yen.size) |-> k - 1]
        /\ last = Call("YEN_new", yen)
        /\ mutex = None
        /\ requests = << >>

\* TryFrom<YEN> for GameY
TryFrom ==
    /\ last.op = "YEN_new"
    /\ \E r \in {try_from(last.ret)} :
          /\ SetGame(IF r.ret.kind = "Ok" THEN r.game ELSE game)
          /\ UNCHANGED << mutex, requests >>
          /\ last' = Call("try_from", [yen |-> last.ret, ret |-> r.ret])

NextYen == TryFrom

SpecYen == InitYen /\ [][NextYen]_vars

\* ---------------------------------------------------------------- the topology alone
\* a topology of any size up to MaxTopologySize, queried through BoardTopology
InitTopology ==
    \E size \in 1 .. MaxTopologySize :
        /\ board_size = size
        /\ engine = GameEngine_new(size)
        /\ history = << >>
        /\ status = Ongoing(0)
        /\ available_cells = [k \in 1 .. total_cells(size) |-> k - 1]
        /\ last = Call("TriangularTopology_new", size)
        /\ mutex = None
        /\ requests = << >>

\* BoardTopology::total_cells
TotalCells ==
    /\ UNCHANGED << mutex, requests >>
    /\ last' = Call("total_cells", total_cells(board_size))
    /\ UNCHANGED << board_size, engine, status, history, available_cells >>

\* BoardTopology::get_neighbors(cell)
GetNeighbors ==
    \E cell \in Cells(board_size) :
        /\ UNCHANGED << mutex, requests >>
        /\ last' = Call("get_neighbors",
                        [cell |-> cell, neighbors |-> get_neighbors(board_size, cell)])
        /\ UNCHANGED << board_size, engine, status, history, available_cells >>

\* BoardTopology::get_cell_regions(cell)
GetCellRegions ==
    \E cell \in Cells(board_size) :
        /\ UNCHANGED << mutex, requests >>
        /\ last' = Call("get_cell_regions",
                        [cell |-> cell, regions |-> get_cell_regions(board_size, cell)])
        /\ UNCHANGED << board_size, engine, status, history, available_cells >>

\* BoardTopology::winning_mask
WinningMask ==
    /\ UNCHANGED << mutex, requests >>
    /\ last' = Call("winning_mask", winning_mask)
    /\ UNCHANGED << board_size, engine, status, history, available_cells >>

NextTopology == TotalCells \/ GetNeighbors \/ GetCellRegions \/ WinningMask

SpecTopology == InitTopology /\ [][NextTopology]_vars

\* ---------------------------------------------------------------- the server
\* the requests in flight, each served by its own task
Requests == 1 .. MaxRequests
\* MoveRequest.index values sent by the client (cells of the board)
IndexInputs == {0, 1, 3}
HumanIndices(size) == {i \in IndexInputs : i < total_cells(size)}
\* the numbers the bot's random source gives
RandomDraws == {0, 1}

\* RandomBot::choose_move: a free cell picked by a random draw, nothing on a full
\* board
choose_move(g) ==
    IF g.available_cells = << >> THEN {None}
    ELSE {Some(from_index(g.available_cells[(draw % Len(g.available_cells)) + 1],
                          g.board_size)) : draw \in RandomDraws}

\* realizar_movimiento, lines 124-135: the human placement; an error is only printed
human_turn(g, index) == add_move(g, Placement(0, from_index(index, g.board_size)))

\* lines 138-149 without the check_game_over of line 138
bot_turn_after_game_over(g, choice) ==
    IF choice = None THEN g
    ELSE add_move(g, Placement(1, unwrap(choice))).game

\* realizar_movimiento, lines 138-149: the bot placement, its result dropped
bot_turn(g, choice) ==
    IF check_game_over(g) THEN g
    ELSE IF choice = None THEN g
    ELSE add_move(g, Placement(1, unwrap(choice))).game

\* lines 153-156
winner_id(g) == IF g.status.kind = "Finished" THEN Some(g.status.winner) ELSE None

Request(route, pc, entry, human) ==
    [route |-> route, pc |-> pc, entry |-> entry, human |-> human]

\* the positions of a request between taking the mutex and dropping it
InCriticalSection == {"human", "bot", "reset", "reply"}

InitServer ==
    /\ \E size \in BoardSizes :
          /\ board_size = size
          /\ engine = GameEngine_new(size)
          /\ history = << >>
          /\ status = Ongoing(0)
          /\ available_cells = [k \in 1 .. total_cells(size) |-> k - 1]
    /\ last = Call("new", Ok)
    /\ mutex = None
    /\ requests = [r \in Requests |-> Request("none", "idle", None, None)]

\* a request arrives at /execute-move or /reset and its handler is started
Arrive(r) ==
    /\ requests[r].pc = "idle"
    /\ \E route \in {"execute-move", "reset"} :
          requests' = [requests EXCEPT ![r] = Request(route, "lock", None, None)]
    /\ UNCHANGED << board_size, engine, status, history, available_cells, last, mutex >>

\* state.game.lock() that does not wait for the mutex
LockWithoutWaiting(r) ==
    /\ requests[r].pc = "lock"
    /\ mutex' = Some(r)
    /\ requests' = [requests EXCEPT ![r].pc = IF requests[r].route = "reset"
                                              THEN "reset" ELSE "human",
                                    ![r].entry = Some(game)]
    /\ UNCHANGED << board_size, engine, status, history, available_cells, last >>

\* state.game.lock().unwrap(), lines 121 and 178: blocks while another holds it
Lock(r) ==
    /\ requests[r].pc = "lock"
    /\ mutex = None
    /\ mutex' = Some(r)
    /\ requests' = [requests EXCEPT ![r].pc = IF requests[r].route = "reset"
                                              THEN "reset" ELSE "human",
                                    ![r].entry = Some(game)]
    /\ UNCHANGED << board_size, engine, status, history, available_cells, last >>

\* realizar_movimiento, lines 124-135
HumanMove(r) ==
    /\ requests[r].pc = "human"
    /\ \E index \in HumanIndices(board_size) :
          \E res \in {human_turn(game, index)} :
              /\ SetGame(res.game)
              /\ last' = Call("add_move", res.ret)
              /\ requests' = [requests EXCEPT ![r].pc = "bot", ![r].human = Some(res.ret)]
    /\ UNCHANGED mutex

\* realizar_movimiento, lines 138-149
BotMove(r) ==
    /\ requests[r].pc = "bot"
    /\ \E choice \in choose_move(game) :
          \E g \in {bot_turn(game, choice)} :
              /\ SetGame(g)
              /\ last' = IF g = game THEN last ELSE Call("add_move", Ok)
    /\ requests' = [requests EXCEPT ![r].pc = "reply"]
    /\ UNCHANGED mutex

\* reiniciar_juego, line 181
ResetGame(r) ==
    /\ requests[r].pc = "reset"
    /\ SetGame(GameY_new(ResetBoardSize))
    /\ last' = Call("new", Ok)
    /\ requests' = [requests EXCEPT ![r].pc = "reply"]
    /\ UNCHANGED mutex

\* lines 153-168 and 185-186: the reply is built and the guard is dropped
Reply(r) ==
    /\ requests[r].pc = "reply"
    /\ last' = Call(requests[r].route,
                    [board |-> YEN_from(game),
                     winner |-> IF requests[r].route = "reset" THEN None ELSE winner_id(game)])
    /\ mutex' = None
    /\ requests' = [requests EXCEPT ![r] = Request(requests[r].route, "done", None, None)]
    /\ UNCHANGED << board_size, engine, status, history, available_cells >>

NextServer ==
    \E r \in Requests :
        \/ Arrive(r)
        \/ Lock(r)
        \/ HumanMove(r)
        \/ BotMove(r)
        \/ ResetGame(r)
        \/ Reply(r)

SpecServer == InitServer /\ [][NextServer]_vars

\* ---------------------------------------------------------------- reference connectivity
\* Two cells are adjacent when their coordinates differ by one lattice step.
Abs(n) == IF n < 0 THEN -n ELSE n
Adjacent(size, a, b) ==
    LET ca == from_index(a, size)
        cb == from_index(b, size)
    IN  /\ a # b
        /\ Abs(ca.x - cb.x) <= 1
        /\ Abs(ca.y - cb.y) <= 1
        /\ Abs(ca.z - cb.z) <= 1

\* Graph search: the cells of `owner` reachable from the cells of `frontier`.
RECURSIVE Grow(_, _, _)
Grow(size, occ, group) ==
    LET more == {c \in Cells(size) \ group :
                    \E g \in group : occ[c] = occ[g] /\ Adjacent(size, g, c)}
    IN  IF more = {} THEN group ELSE Grow(size, occ, group \cup more)

GroupOf(size, occ, cell) == Grow(size, occ, {cell})

TouchesAllSides(size, group) ==
    /\ \E c \in group : from_index(c, size).x = 0
    /\ \E c \in group : from_index(c, size).y = 0
    /\ \E c \in group : from_index(c, size).z = 0

\* The cell of the most recent successful make_move: it owns the newest node.
NewestCell(e) == CHOOSE c \in Cells(e.size) : e.cell_set_map[c] = Some(VLen(e.sets) - 1)

\* ---------------------------------------------------------------- claims
\* C1: make_move(cell, player) returns Ok(true) exactly when, in the resulting
\* occupancy, the group of player's cells connected to cell (found by graph search)
\* has a cell on side A, one on side B and one on side C.
C1_WinIffGroupTouchesAllSides ==
    /\ \A cell \in Cells(board_size), player \in Players :
          LET r == make_move(engine, cell, player) IN
          r.kind = "Ok" =>
              (r.won <=> TouchesAllSides(board_size,
                                         GroupOf(board_size, r.engine.state, cell)))
    /\ (last.op = "make_move" /\ last.ret.kind = "Ok") =>
          (last.ret.won <=> TouchesAllSides(board_size,
                               GroupOf(board_size, engine.state, NewestCell(engine))))

\* a win on the size-3 board, reached by joining three pieces
C1_Witness ==
    /\ board_size = 3
    /\ last = Call("make_move", [kind |-> "Ok", won |-> TRUE])
    /\ VLen(engine.sets) = 3

\* C5: make_move fails exactly when the cell is out of bounds (OutOfBounds) or
\* already owned (Occupied); a failed call leaves state, sets and cell_set_map as
\* they were, and every other call returns Ok.
C5_ErrorsExactlyOutOfBoundsOrOccupied ==
    \A cell \in 0 .. total_cells(board_size) + 1, player \in Players :
        LET r == make_move(engine, cell, player) IN
        /\ r.kind = (IF cell >= total_cells(board_size) THEN "OutOfBounds"
                     ELSE IF engine.state[cell] # None THEN "Occupied"
                     ELSE "Ok")
        /\ r.kind # "Ok" => r.engine = engine
        /\ r.kind = "Ok" => r.engine.state[cell] = Some(player)

\* an out-of-bounds call was rejected on a board that already holds pieces
C5_Witness ==
    /\ last = Call("make_move", [kind |-> "OutOfBounds", won |-> FALSE])
    /\ VLen(engine.sets) >= 2
    /\ \E c \in Cells(board_size) : engine.state[c] = None

\* ---------------------------------------------------------------- GameY claims
IndexOf(coords) == to_index(coords, board_size)
FreeCoords == {c \in CoordsOf(board_size) : engine.state[IndexOf(c)] = None}
TakenCoords == {c \in CoordsOf(board_size) : engine.state[IndexOf(c)] # None}

\* The occupancy after the first k moves of the history, replayed from the moves alone.
OccAfter(k) ==
    [c \in Cells(board_size) |->
        LET js == {j \in 1 .. k : history[j].kind = "Placement"
                                   /\ IndexOf(history[j].coords) = c}
        IN  IF js = {} THEN None ELSE Some(history[CHOOSE j \in js : TRUE].player)]

HasWinningGroup(occ, player) ==
    \E c \in Cells(board_size) :
        /\ occ[c] = Some(player)
        /\ TouchesAllSides(board_size, GroupOf(board_size, occ, c))

\* the moves after which the placing player owns a group touching all three sides
WinningMoves ==
    {k \in 1 .. Len(history) :
        \E occ \in {OccAfter(k)} : HasWinningGroup(occ, history[k].player)}

B(x, y, z) == Placement(0, Coordinates_new(x, y, z))
R(x, y, z) == Placement(1, Coordinates_new(x, y, z))
Scenario3 == << B(0, 2, 0), R(2, 0, 0), B(0, 1, 1), R(1, 1, 0), B(0, 0, 2) >>

\* C2: in a game of successful placements only, the status is Ongoing until the
\* first placement after which the placing player owns a connected group touching
\* all three sides, and Finished with that player as winner from then on; on size 3
\* the moves B(0,2,0), R(2,0,0), B(0,1,1), R(1,1,0), B(0,0,2) finish the game for
\* player 0 at the fifth move and not before; on size 1 the first placement wins.
C2_OngoingUntilFirstWinningPlacement ==
    /\ IF WinningMoves = {}
       THEN status.kind = "Ongoing"
       ELSE LET first == CHOOSE k \in WinningMoves : \A j \in WinningMoves : k <= j
            IN  status = Finished(history[first].player)
    /\ (board_size = 3 /\ Len(history) <= 5 /\ history = SubSeq(Scenario3, 1, Len(history)))
          => status = (IF Len(history) = 5 THEN Finished(0)
                       ELSE Ongoing(IF Len(history) % 2 = 0 THEN 0 ELSE 1))
    /\ (board_size = 1 /\ Len(history) >= 1) => status = Finished(history[1].player)

\* the five moves of the size-3 scenario have been played
C2_Witness == board_size = 3 /\ history = Scenario3 /\ status = Finished(0)

\* C3: once the status is Finished{winner = w}, no add_move changes it.
C3_FinishedIsTerminal == [][status.kind = "Finished" => status' = status]_vars

\* C4: a Placement on a cell that has an owner returns the Occupied error and leaves
\* engine, status, free cells and history as they were; repeating the call gives
\* the same error and the same state.
C4_OccupiedPlacementChangesNothing ==
    \A player \in Players, coords \in TakenCoords :
        LET r1 == add_move(game, Placement(player, coords))
            r2 == add_move(r1.game, Placement(player, coords))
        IN  /\ r1.ret.kind = "Occupied"
            /\ r1.game = game
            /\ r2.ret = r1.ret
            /\ r2.game = game

\* a placement on an owned cell has just been rejected
C4_Witness ==
    /\ last = Call("add_move", Occupied(<< >>, 0))
    /\ Len(history) >= 1
    /\ TakenCoords # {}

\* C6: available_cells lists exactly the cells c with engine.state[c] = None,
\* each once.
C6_AvailableCellsAreTheFreeCells ==
    /\ {available_cells[k] : k \in 1 .. Len(available_cells)}
          = {c \in Cells(board_size) : engine.state[c] = None}
    /\ \A j, k \in 1 .. Len(available_cells) :
          available_cells[j] = available_cells[k] => j = k

\* two placements and an action have been applied and free cells remain
C6_Witness ==
    /\ Cardinality(TakenCoords) = 2
    /\ \E k \in 1 .. Len(history) : history[k].kind = "Action"
    /\ Len(available_cells) = total_cells(board_size) - 2
    /\ Len(available_cells) > 0

\* C7: while Ongoing, a Placement by any player p on a free cell succeeds, in turn
\* or out of turn; afterwards the status is Finished{winner = p} if the engine
\* reported a win and Ongoing{next_player = other(p)} otherwise.
C7_PlacementAcceptedOutOfTurn ==
    status.kind = "Ongoing" =>
        \A player \in Players, coords \in FreeCoords :
            LET r == add_move(game, Placement(player, coords))
                e == make_move(engine, IndexOf(coords), player)
            IN  /\ r.ret = Ok
                /\ r.game.status = (IF e.won THEN Finished(player)
                                    ELSE Ongoing(other_player(player)))

\* player 1 opened the game although player 0 was next, and the game goes on
C7_Witness ==
    /\ Len(history) = 2
    /\ history[1].kind = "Placement" /\ history[1].player = 1
    /\ history[2].kind = "Placement" /\ history[2].player = 1
    /\ status = Ongoing(0)
    /\ last = Call("add_move", Ok)

\* C8: Resign by p sets the status to Finished{winner = other(p)}, Swap by p sets it
\* to Ongoing{next_player = other(p)}; both succeed in every state, leave the engine
\* and the free cells as they were and append the action to the history.
C8_ActionsSetStatusOnly ==
    \A player \in Players, action \in GameActions :
        LET r == add_move(game, Action(player, action)) IN
        /\ r.ret = Ok
        /\ r.game.status = (IF action = "Resign" THEN Finished(other_player(player))
                            ELSE Ongoing(other_player(player)))
        /\ r.game.engine = engine
        /\ r.game.available_cells = available_cells
        /\ r.game.history = Append(history, Action(player, action))
        /\ r.game.board_size = board_size

\* a resignation was applied on a board that holds a piece
C8_Witness ==
    /\ Len(history) >= 2
    /\ history[Len(history)] = Action(1, "Resign")
    /\ status = Finished(0)
    /\ TakenCoords # {}
    /\ last = Call("add_move", Ok)

\* C9: check_player_turn returns InvalidPlayerTurn{expected = next_player, found =
\* the movement's player} exactly when the status is Ongoing and the movement's
\* player is not next_player, Ok in every other case (every call while Finished
\* included), and it never changes the game.
C9_TurnCheckResult ==
    \A movement \in Movements(board_size) :
        LET ret == check_player_turn(game, movement) IN
        /\ (status.kind = "Ongoing" /\ movement.player # status.next_player)
              => ret = [kind |-> "InvalidPlayerTurn",
                        expected |-> status.next_player, found |-> movement.player]
        /\ (status.kind = "Finished" \/ movement.player = status.next_player)
              => ret = Ok

C9_TurnCheckChangesNothing ==
    last'.op = "check_player_turn" =>
        /\ UNCHANGED << board_size, engine, status, history, available_cells >>
        /\ last'.ret.kind = "InvalidPlayerTurn" =>
              /\ status.kind = "Ongoing"
              /\ last'.ret.expected = status.next_player
              /\ last'.ret.found = other_player(status.next_player)

C9_CheckPlayerTurn == []C9_TurnCheckResult /\ [][C9_TurnCheckChangesNothing]_vars

\* the wrong-turn error was returned after player 1 had become the next player
C9_Witness ==
    /\ last = Call("check_player_turn", InvalidPlayerTurn(1, 0))
    /\ status = Ongoing(1)
    /\ Len(history) >= 1

\* C10: while Finished, a Placement on a free cell returns Ok: the cell becomes
\* owned by the placing player, leaves the free cells, the move is appended to the
\* history and the status stays as it was.
C10_PlacementAfterFinishedIsApplied ==
    status.kind = "Finished" =>
        \A player \in Players, coords \in FreeCoords :
            LET m == Placement(player, coords)
                r == add_move(game, m)
            IN  /\ r.ret = Ok
                /\ r.game.engine.state[IndexOf(coords)] = Some(player)
                /\ \A k \in 1 .. Len(r.game.available_cells) :
                      r.game.available_cells[k] # IndexOf(coords)
                /\ Len(r.game.available_cells) = Len(available_cells) - 1
                /\ r.game.history = Append(history, m)
                /\ r.game.status = status

\* the loser placed a piece after the game had finished, and the winner stands
C10_Witness ==
    /\ status.kind = "Finished"
    /\ last = Call("add_move", Ok)
    /\ Len(history) >= 2
    /\ history[Len(history)].kind = "Placement"
    /\ history[Len(history)].player # status.winner


\* ---------------------------------------------------------------- YEN claims
\* the character that stands for the owner of a cell in a layout
TagOf(owner) == IF owner = Some(0) THEN "B" ELSE IF owner = Some(1) THEN "R" ELSE "."

\* the owner a layout character stands for
OwnerOf(char) == IF char = "B" THEN Some(0) ELSE IF char = "R" THEN Some(1) ELSE None

\* C11: for every board size and every game reached by legal placements of players
\* 0 and 1, decoding the YEN that encodes the game succeeds and yields a game with
\* the same owner in every cell, whose layout string is therefore the same again.
C11_RoundTripKeepsOccupancy ==
    [][last.op = "into_yen" /\ last'.op = "try_from"
        => /\ last'.ret.ret = Ok
           /\ board_size' = board_size
           /\ engine'.state = engine.state
           /\ (YEN_from(game).layout)' = last.ret.layout]_vars

\* a size-3 game with four pieces of both players came back from its YEN
C11_Witness ==
    /\ last.op = "try_from"
    /\ last.ret.ret = Ok
    /\ board_size = 3
    /\ Cardinality({c \in Cells(3) : engine.state[c] = Some(0)}) = 2
    /\ Cardinality({c \in Cells(3) : engine.state[c] = Some(1)}) = 2

\* C12: the encoded turn is next_player of an Ongoing game and the other of the
\* winner of a Finished one; the layout has size rows separated by '/', row r has
\* r+1 characters, and the character at row r, column c is 'B' or 'R' for the owner
\* of the cell (x = size-1-r, y = c) and '.' for a free cell.
C12_EncodedTurnAndLayout ==
    last.op = "into_yen" =>
        \E rows \in {split(last.ret.layout, "/")} :
            /\ last.ret.size = board_size
            /\ status.kind = "Ongoing" => last.ret.turn = status.next_player
            /\ status.kind = "Finished" => last.ret.turn = 1 - status.winner
            /\ Len(rows) = board_size
            /\ \A r \in 0 .. board_size - 1 :
                  /\ Len(rows[r + 1]) = r + 1
                  /\ \A c \in 0 .. r :
                        rows[r + 1][c + 1] =
                            TagOf(engine.state[IndexOf(Coordinates_new(board_size - 1 - r, c, r - c))])

\* a finished size-3 game with pieces of both players was encoded
C12_Witness ==
    /\ last.op = "into_yen"
    /\ board_size = 3
    /\ status.kind = "Finished"
    /\ \E c \in Cells(3) : engine.state[c] = Some(1)

\* the rows of the record that was decoded, and what decoding returned
DecodedRows == split(last.ret.yen.layout, "/")
BadLength(rows, r) == Len(rows[r + 1]) # r + 1
BadChars(rows, r) == {c \in 0 .. Len(rows[r + 1]) - 1 : rows[r + 1][c + 1] \notin {"B", "R", "."}}
BadRows(rows) == {r \in 0 .. Len(rows) - 1 : BadLength(rows, r) \/ BadChars(rows, r) # {}}
Least(S) == CHOOSE m \in S : \A n \in S : m <= n

\* C13 (as stated): decoding fails with the row-count error when the number of rows
\* differs from size, with the row-length error when some row r does not have r+1
\* characters, with the invalid-character error when some character is not 'B', 'R'
\* or '.', and succeeds otherwise; the three checks are read in the order in which
\* they are listed, each over the whole record.
C13_EachCheckOverTheWholeRecord ==
    last.op = "try_from" =>
        \E rows \in {DecodedRows} : \E ret \in {last.ret.ret} :
            IF Len(rows) # last.ret.yen.size THEN ret.kind = "InvalidYENLayout"
            ELSE IF \E r \in 0 .. Len(rows) - 1 : BadLength(rows, r)
            THEN ret.kind = "InvalidYENLayoutLine"
            ELSE IF \E r \in 0 .. Len(rows) - 1 : BadChars(rows, r) # {}
            THEN ret.kind = "InvalidCharInLayout"
            ELSE ret = Ok

\* C13 (amended): decoding fails with the row-count error, carrying size and the
\* number of rows, when the two differ; otherwise the rows are taken in order, and
\* the first row that has a wrong length or an invalid character decides: a row r
\* without r+1 characters gives the row-length error carrying r+1, its length and
\* r, and else its first character that is not 'B', 'R' or '.' gives the
\* invalid-character error carrying the character, the row and the column; a record
\* with no such row decodes successfully.
C13_FirstFailingRowDecides ==
    last.op = "try_from" =>
        \E rows \in {DecodedRows} : \E ret \in {last.ret.ret} :
            IF Len(rows) # last.ret.yen.size
            THEN ret = InvalidYENLayout(last.ret.yen.size, Len(rows))
            ELSE IF BadRows(rows) = {} THEN ret = Ok
            ELSE \E r \in {Least(BadRows(rows))} :
                    IF BadLength(rows, r)
                    THEN ret = InvalidYENLayoutLine(r + 1, Len(rows[r + 1]), r)
                    ELSE \E c \in {Least(BadChars(rows, r))} :
                            ret = InvalidCharInLayout(rows[r + 1][c + 1], r, c)

\* "X/B" at size 2 was decoded: row 0 has an invalid character, row 1 a wrong length
C13_Witness ==
    /\ last.op = "try_from"
    /\ last.ret.yen.size = 2
    /\ last.ret.yen.layout = << "X", "/", "B" >>
    /\ last.ret.ret = InvalidCharInLayout("X", 0, 0)

\* the owners of the cells as the decoded layout gives them
LayoutOcc(rows) ==
    [c \in Cells(board_size) |->
        OwnerOf(rows[board_size - from_index(c, board_size).x][from_index(c, board_size).y + 1])]

\* C14: decoding a well-formed layout yields Finished{winner = w} if and only if the
\* cells tagged for player w contain a connected group touching all three sides, and
\* Ongoing otherwise; "B/BB" at size 2, "B/BB/BBR" at size 3 and "B" at size 1 give
\* Finished{0}, "." at size 1 gives Ongoing{0}.
C14_DecodedStatus ==
    last.op = "try_from" /\ last.ret.ret = Ok =>
        \E occ \in {LayoutOcc(DecodedRows)} : \E yen \in {last.ret.yen} :
            /\ \A w \in Players : status = Finished(w) <=> HasWinningGroup(occ, w)
            /\ (\A w \in Players : ~HasWinningGroup(occ, w)) => status.kind = "Ongoing"
            /\ yen.size = 2 /\ yen.layout = << "B", "/", "B", "B" >> => status = Finished(0)
            /\ yen.size = 3 /\ yen.layout = << "B", "/", "B", "B", "/", "B", "B", "R" >>
                    => status = Finished(0)
            /\ yen.size = 1 /\ yen.layout = << "B" >> => status = Finished(0)
            /\ yen.size = 1 /\ yen.layout = << "." >> => status = Ongoing(0)

\* "B/BB/BBR" was decoded at size 3
C14_Witness ==
    /\ last.op = "try_from"
    /\ last.ret.ret = Ok
    /\ last.ret.yen.layout = << "B", "/", "B", "B", "/", "B", "B", "R" >>
    /\ status = Finished(0)


\* ---------------------------------------------------------------- topology claims
\* the cells listed as neighbours of a cell
NeighborSet(cell) ==
    {get_neighbors(board_size, cell)[k] : k \in 1 .. Len(get_neighbors(board_size, cell))}

\* the coordinates (x, y, z) of a board: naturals with x + y + z = size - 1
ValidCoords(size) ==
    {Coordinates_new(x, y, size - 1 - x - y) : x \in 0 .. size - 1, y \in 0 .. size - 1}
        \cap [x : 0 .. size - 1, y : 0 .. size - 1, z : 0 .. size - 1]

\* the number of sides a cell lies on, from its coordinates
SidesOf(cell) ==
    Cardinality({f \in {"x", "y", "z"} : from_index(cell, board_size)[f] = 0})

\* C15: for every board size and all cells c1, c2, c2 is a neighbour of c1 if and
\* only if c1 is a neighbour of c2; every listed neighbour is an index below
\* total_cells(), differs from the cell itself and is listed once.
C15_NeighborsSymmetric ==
    /\ \A c1, c2 \in Cells(board_size) :
          c2 \in NeighborSet(c1) <=> c1 \in NeighborSet(c2)
    /\ \A c \in Cells(board_size) :
          \E ns \in {get_neighbors(board_size, c)} :
              /\ \A k \in 1 .. Len(ns) :
                    ns[k] \in 0 .. total_cells(board_size) - 1 /\ ns[k] # c
              /\ \A j, k \in 1 .. Len(ns) : ns[j] = ns[k] => j = k

\* the neighbours of the edge cell (0, 2, 2) of size 5 were asked for
C15_Witness ==
    /\ last.op = "get_neighbors"
    /\ board_size = 5
    /\ from_index(last.ret.cell, 5) = Coordinates_new(0, 2, 2)
    /\ Len(last.ret.neighbors) = 4

\* C16 (as stated): for every board size >= 1, a cell on two or more sides has
\* exactly 2 neighbours, a cell on exactly one side 4, a cell on no side 6.
C16_NeighborCountsAnySize ==
    \A c \in Cells(board_size) :
        Len(get_neighbors(board_size, c)) =
            IF SidesOf(c) >= 2 THEN 2 ELSE IF SidesOf(c) = 1 THEN 4 ELSE 6

\* C16 (amended): for every board size >= 2, a cell on two or more sides has
\* exactly 2 neighbours, a cell on exactly one side 4, a cell on no side 6; the
\* only cell of a board of size 1 lies on all three sides and has no neighbour.
C16_NeighborCounts ==
    \A c \in Cells(board_size) :
        Len(get_neighbors(board_size, c)) =
            IF board_size = 1 THEN 0
            ELSE IF SidesOf(c) >= 2 THEN 2 ELSE IF SidesOf(c) = 1 THEN 4 ELSE 6

\* the neighbours of the interior cell (2, 1, 1) of size 5 were asked for
C16_Witness ==
    /\ last.op = "get_neighbors"
    /\ board_size = 5
    /\ from_index(last.ret.cell, 5) = Coordinates_new(2, 1, 1)
    /\ Len(last.ret.neighbors) = 6

\* C17: get_cell_regions(cell) has bit 0 (side A) set iff x = 0, bit 1 (side B) iff
\* y = 0, bit 2 (side C) iff z = 0, and no other bit; winning_mask() is the three
\* side bits together.
C17_RegionMasks ==
    /\ \A c \in Cells(board_size) :
          \E m \in {get_cell_regions(board_size, c)} :
          \E coords \in {from_index(c, board_size)} :
              /\ m \in 0 .. 7
              /\ m % 2 = 1 <=> coords.x = 0
              /\ (m \div 2) % 2 = 1 <=> coords.y = 0
              /\ (m \div 4) % 2 = 1 <=> coords.z = 0
    /\ SIDE_A = 1 /\ SIDE_B = 2 /\ SIDE_C = 4
    /\ winning_mask = 7

\* the regions of the corner (0, 0, 3) of size 4, on sides A and B, were asked for
C17_Witness ==
    /\ last.op = "get_cell_regions"
    /\ board_size = 4
    /\ from_index(last.ret.cell, 4) = Coordinates_new(0, 0, 3)
    /\ last.ret.regions = 3

\* C18: for every size, to_index maps the coordinates with x + y + z = size - 1
\* one-to-one onto 0 .. size*(size+1)/2 - 1 and from_index is its inverse; a cell
\* comes before another iff its x is larger, or its x is equal and its y smaller;
\* total_cells() is size*(size+1)/2, the number of coordinates.
C18_IndexBijection ==
    \E size \in {board_size} : \E V \in {ValidCoords(board_size)} :
        /\ \A c \in V :
              /\ to_index(c, size) \in 0 .. (size * (size + 1)) \div 2 - 1
              /\ from_index(to_index(c, size), size) = c
        /\ \A i \in 0 .. (size * (size + 1)) \div 2 - 1 :
              /\ from_index(i, size) \in V
              /\ to_index(from_index(i, size), size) = i
        /\ \A c1, c2 \in V :
              to_index(c1, size) < to_index(c2, size)
                  <=> c1.x > c2.x \/ (c1.x = c2.x /\ c1.y < c2.y)
        /\ total_cells(size) = (size * (size + 1)) \div 2
        /\ total_cells(size) = Cardinality(V)

\* total_cells() of a size-6 board was asked for
C18_Witness ==
    /\ last.op = "total_cells"
    /\ last.ret = 21
    /\ board_size = 6
    /\ to_index(Coordinates_new(0, 5, 0), 6) = 20


\* ---------------------------------------------------------------- history and forest
\* C19: the history is append-only: an add_move that returns Ok appends exactly
\* its movement, placement or action, at the end; an add_move that returns an error
\* appends nothing; entries already in the history are never changed, reordered or
\* removed.
C19_AddMoveAppends ==
    \A movement \in Movements(board_size) :
        \E r \in {add_move(game, movement)} :
            IF r.ret = Ok
            THEN r.game.history = history \o << movement >>
            ELSE r.game.history = history

C19_HistoryOnlyGrows ==
    /\ Len(history') >= Len(history)
    /\ SubSeq(history', 1, Len(history)) = history
    /\ last'.op = "add_move" /\ last'.ret = Ok => Len(history') = Len(history) + 1
    /\ last'.op = "add_move" /\ last'.ret # Ok => history' = history

C19_HistoryAppendOnly == []C19_AddMoveAppends /\ [][C19_HistoryOnlyGrows]_vars

\* a Resign was appended after two placements, and a placement was then refused
C19_Witness ==
    /\ last.op = "add_move"
    /\ last.ret.kind = "Occupied"
    /\ Len(history) = 3
    /\ history[1].kind = "Placement" /\ history[2].kind = "Placement"
    /\ history[3].kind = "Action"

\* the root of node n, following the parents without changing them
RECURSIVE RootOf(_, _)
RootOf(sets, n) == IF sets[n].parent = n THEN n ELSE RootOf(sets, sets[n].parent)

\* the cells whose nodes are in the tree of root r
TreeCells(e, r) ==
    {c \in Cells(e.size) :
        is_some(e.cell_set_map[c]) /\ RootOf(e.sets, unwrap(e.cell_set_map[c])) = r}

\* the bitwise OR of the region masks of a set of cells, one bit at a time
MaskOf(size, cells) ==
    (IF \E c \in cells : from_index(c, size).x = 0 THEN 1 ELSE 0)
    + (IF \E c \in cells : from_index(c, size).y = 0 THEN 2 ELSE 0)
    + (IF \E c \in cells : from_index(c, size).z = 0 THEN 4 ELSE 0)

\* C20: after every make_move, for every root r of the union-find forest,
\* sets[r].regions_touched is the bitwise OR of the topology region masks of all
\* cells whose nodes are in r's tree.
C20_RootMaskIsOrOfTree ==
    \A r \in 0 .. VLen(engine.sets) - 1 :
        engine.sets[r].parent = r =>
            engine.sets[r].regions_touched = MaskOf(engine.size, TreeCells(engine, r))

\* a make_move joined three pieces into one tree that lies on more than one side
C20_Witness ==
    /\ last.op = "make_move"
    /\ last.ret.kind = "Ok"
    /\ \E r \in 0 .. VLen(engine.sets) - 1 :
          /\ engine.sets[r].parent = r
          /\ Cardinality(TreeCells(engine, r)) >= 3
          /\ engine.sets[r].regions_touched \in {3, 5, 6}


\* ---------------------------------------------------------------- engine claims
\* the node of an occupied cell
NodeOf(e, c) == unwrap(e.cell_set_map[c])
OccupiedCells(e) == {c \in Cells(e.size) : is_some(e.state[c])}
Roots(sets) == {r \in 0 .. VLen(sets) - 1 : sets[r].parent = r}

\* C21: in every reachable engine state, state[c] is Some exactly when
\* cell_set_map[c] is Some; there are as many nodes as occupied cells; distinct
\* occupied cells have distinct nodes below sets.len(); each cell's own node mask
\* includes the cell's region mask; and the node list only grows, by one node per
\* successful placement, no cell ever changing its node.
C21_NodesMatchCells ==
    /\ \A c \in Cells(board_size) : is_some(engine.state[c]) <=> is_some(engine.cell_set_map[c])
    /\ VLen(engine.sets) = Cardinality(OccupiedCells(engine))
    /\ \A c \in OccupiedCells(engine) :
          /\ NodeOf(engine, c) \in 0 .. VLen(engine.sets) - 1
          /\ BitAnd(engine.sets[NodeOf(engine, c)].regions_touched,
                    get_cell_regions(board_size, c)) = get_cell_regions(board_size, c)
    /\ \A c1, c2 \in OccupiedCells(engine) :
          NodeOf(engine, c1) = NodeOf(engine, c2) => c1 = c2

C21_NodeListGrows ==
    /\ last'.ret.kind = "Ok" => VLen(engine'.sets) = VLen(engine.sets) + 1
    /\ last'.ret.kind # "Ok" => engine' = engine
    /\ \A c \in Cells(board_size) :
          is_some(engine.cell_set_map[c]) => engine'.cell_set_map[c] = engine.cell_set_map[c]

C21_EngineBookkeeping == []C21_NodesMatchCells /\ [][C21_NodeListGrows]_vars

\* four pieces of both players were placed on the size-3 board
C21_Witness ==
    /\ last.op = "make_move"
    /\ last.ret.kind = "Ok"
    /\ board_size = 3
    /\ VLen(engine.sets) = 4
    /\ \E c1, c2 \in Cells(3) : engine.state[c1] = Some(0) /\ engine.state[c2] = Some(1)

\* every order in which the entries of a list can be visited
VisitOrders(seq) ==
    {[k \in 1 .. Len(seq) |-> seq[p[k]]] :
        p \in {q \in [1 .. Len(seq) -> 1 .. Len(seq)] :
                  \A j, k \in 1 .. Len(seq) : q[j] = q[k] => j = k}}

\* make_move on a free cell with the neighbours visited in the order given
MakeMoveInOrder(e, cell, player, neighbors) ==
    make_move_joined(e, cell, player,
                     [e.state EXCEPT ![cell] = Some(player)],
                     [e.cell_set_map EXCEPT ![cell] = Some(VLen(e.sets))],
                     VLen(e.sets), neighbors)

\* the sets of occupied cells, each with the mask on its root
RootMasks(e) == {<< TreeCells(e, r), e.sets[r].regions_touched >> : r \in Roots(e.sets)}

\* C22: for any engine state and any legal make_move(cell, player), visiting the
\* cell's neighbours in any permutation gives the same win flag, the same
\* partition of the occupied cells into sets and the same mask on every root.
C22_NeighborOrderIndependent ==
    \A cell \in Cells(board_size) \ OccupiedCells(engine), player \in Players :
        \E a \in {make_move(engine, cell, player)} :
        \E masks \in {RootMasks(a.engine)} :
            \A neighbors \in VisitOrders(get_neighbors(board_size, cell)) :
                \E b \in {MakeMoveInOrder(engine, cell, player, neighbors)} :
                    /\ b.kind = a.kind
                    /\ b.won = a.won
                    /\ b.engine.state = a.engine.state
                    /\ RootMasks(b.engine) = masks

\* the piece just placed joined two or more neighbours of its player
C22_Witness ==
    /\ last.op = "make_move"
    /\ last.ret.kind = "Ok"
    /\ \E ns \in {get_neighbors(board_size, NewestCell(engine))} :
          Cardinality({k \in 1 .. Len(ns) :
                          engine.state[ns[k]] = engine.state[NewestCell(engine)]}) >= 2

\* the loop of make_move as it would be with a break after the winning union
RECURSIVE ConnectUntilWin(_, _, _, _, _, _, _)
ConnectUntilWinStep(state, cell_set_map, u, neighbors, k, player, new_set_idx) ==
    IF u.won THEN u
    ELSE ConnectUntilWin(state, cell_set_map, u.sets, neighbors, k + 1, player, new_set_idx)

ConnectUntilWin(state, cell_set_map, sets, neighbors, k, player, new_set_idx) ==
    IF k > Len(neighbors)
    THEN [won |-> FALSE, sets |-> sets]
    ELSE IF is_some(state[neighbors[k]]) /\ unwrap(state[neighbors[k]]) = player
    THEN ConnectUntilWinStep(state, cell_set_map,
                             union(sets, new_set_idx, unwrap(cell_set_map[neighbors[k]])),
                             neighbors, k, player, new_set_idx)
    ELSE ConnectUntilWin(state, cell_set_map, sets, neighbors, k + 1, player, new_set_idx)

\* the loop of make_move(cell, player) on engine e, up to the first winning union
LoopUntilWin(e, cell, player) ==
    ConnectUntilWin([e.state EXCEPT ![cell] = Some(player)],
                    [e.cell_set_map EXCEPT ![cell] = Some(VLen(e.sets))],
                    VPush(e.sets, DisjointSet(VLen(e.sets), get_cell_regions(e.size, cell))),
                    get_neighbors(e.size, cell), 1, player, VLen(e.sets))

\* C23 (as stated): within one make_move, once a union reports the win no further
\* union with the remaining neighbours is performed: the sets the call leaves are
\* the sets as they were right after that union.
C23_NoUnionAfterTheWin ==
    \A cell \in Cells(board_size) \ OccupiedCells(engine), player \in Players :
        \E early \in {LoopUntilWin(engine, cell, player)} :
            early.won => make_move(engine, cell, player).engine.sets = early.sets

\* C23 (amended): within one make_move, once a union reports the win the call
\* returns the win, and the loop still goes on: every neighbour owned by the
\* player, also one that comes after the winning union, ends in the set of the
\* placed cell.
C23_WinKeptAndLoopGoesOn ==
    \A cell \in Cells(board_size) \ OccupiedCells(engine), player \in Players :
        \E early \in {LoopUntilWin(engine, cell, player)} :
            early.won =>
                \E r \in {make_move(engine, cell, player)} :
                \E ns \in {get_neighbors(board_size, cell)} :
                    /\ r.kind = "Ok"
                    /\ r.won
                    /\ \A k \in 1 .. Len(ns) :
                          engine.state[ns[k]] = Some(player) =>
                              RootOf(r.engine.sets, NodeOf(r.engine, ns[k]))
                                  = RootOf(r.engine.sets, NodeOf(r.engine, cell))

\* on size 3 player 0 held cells 5, 4 and 0 and then took cell 1: the union with
\* cell 4 reports the win, the union with cell 0 comes after it
C23_Witness ==
    /\ last.op = "make_move"
    /\ last.ret.kind = "Ok" /\ last.ret.won
    /\ board_size = 3
    /\ VLen(engine.sets) = 4
    /\ \A c \in {0, 1, 4, 5} : engine.state[c] = Some(0)
    /\ NewestCell(engine) = 1
    /\ RootOf(engine.sets, NodeOf(engine, 0)) = RootOf(engine.sets, NodeOf(engine, 1))

\* the node reached from n by following k parent pointers
RECURSIVE ParentN(_, _, _)
ParentN(sets, n, k) == IF k = 0 THEN n ELSE ParentN(sets, sets[n].parent, k - 1)

\* the nodes visited by find(i): i and its ancestors below the root
PathOf(sets, i) ==
    {ParentN(sets, i, k) : k \in 0 .. VLen(sets)} \ Roots(sets)

\* C24: find(i) returns the root of i's tree and leaves every node visited on the
\* path from i to the root with its parent set to that root; it changes no other
\* parent, no mask and no node's set; the parent pointers form no cycle other than
\* a root's self-reference, so find terminates.
C24_FindCompressesPath ==
    \A i \in 0 .. VLen(engine.sets) - 1 :
        /\ \E k \in 0 .. VLen(engine.sets) : ParentN(engine.sets, i, k) \in Roots(engine.sets)
        /\ \E f \in {find(engine.sets, i)} :
              /\ f.root = RootOf(engine.sets, i)
              /\ DOMAIN f.sets = DOMAIN engine.sets
              /\ \A n \in PathOf(engine.sets, i) : f.sets[n].parent = f.root
              /\ \A n \in (0 .. VLen(engine.sets) - 1) \ PathOf(engine.sets, i) :
                    f.sets[n] = engine.sets[n]
              /\ \A n \in 0 .. VLen(engine.sets) - 1 :
                    /\ f.sets[n].regions_touched = engine.sets[n].regions_touched
                    /\ RootOf(f.sets, n) = RootOf(engine.sets, n)

\* a make_move left a node two parent steps away from its root
C24_Witness ==
    /\ last.op = "make_move"
    /\ last.ret.kind = "Ok"
    /\ \E i \in 0 .. VLen(engine.sets) - 1 :
          /\ engine.sets[i].parent # i
          /\ engine.sets[engine.sets[i].parent].parent # engine.sets[i].parent

\* C26: in every reachable engine state two occupied cells have the same root if
\* and only if they have the same owner and are joined by a path of adjacent cells
\* of that owner; no set holds cells of two players.
C26_SetsAreConnectedGroups ==
    \A c1 \in OccupiedCells(engine) :
        \E group \in {GroupOf(board_size, engine.state, c1)} :
            \A c2 \in OccupiedCells(engine) :
                /\ RootOf(engine.sets, NodeOf(engine, c1)) = RootOf(engine.sets, NodeOf(engine, c2))
                      <=> c2 \in group
                /\ RootOf(engine.sets, NodeOf(engine, c1)) = RootOf(engine.sets, NodeOf(engine, c2))
                      => engine.state[c1] = engine.state[c2]

\* adjacent pieces of different players, and two separate groups of one player
C26_Witness ==
    /\ last.op = "make_move"
    /\ last.ret.kind = "Ok"
    /\ \E c1, c2 \in OccupiedCells(engine) :
          Adjacent(board_size, c1, c2) /\ engine.state[c1] # engine.state[c2]
    /\ \E c1, c2 \in OccupiedCells(engine) :
          /\ engine.state[c1] = engine.state[c2]
          /\ RootOf(engine.sets, NodeOf(engine, c1)) # RootOf(engine.sets, NodeOf(engine, c2))


\* ---------------------------------------------------------------- no draw
\* C27: in a game driven only by placements of players 0 and 1, whenever no free
\* cell is left the status is Finished, and at no reachable state do both players
\* own a connected group touching all three sides.
C27_NoDraw ==
    /\ available_cells = << >> => status.kind = "Finished"
    /\ FreeCoords = {} => status.kind = "Finished"
    /\ ~(HasWinningGroup(engine.state, 0) /\ HasWinningGroup(engine.state, 1))

\* the size-3 board was filled by both players
C27_Witness ==
    /\ last.op = "add_move"
    /\ board_size = 3
    /\ available_cells = << >>
    /\ Len(history) = 6
    /\ Cardinality({c \in Cells(3) : engine.state[c] = Some(1)}) = 3
    /\ status.kind = "Finished"


\* ---------------------------------------------------------------- the turn of a record
\* the owner of the last 'B' or 'R' of a layout string, None when it has neither
RECURSIVE LastTagged(_)
LastTagged(layout) ==
    IF layout = << >> THEN None
    ELSE IF layout[Len(layout)] \in {"B", "R"} THEN OwnerOf(layout[Len(layout)])
    ELSE LastTagged(SubSeq(layout, 1, Len(layout) - 1))

\* C28: the status of a decoded game depends on the layout alone: records that
\* differ only in their turn decode to the same result and status, and an Ongoing
\* decoded game gives the next move to the other of the player whose tag comes
\* last in the layout, to player 0 when the layout has no tag; so decoding an
\* encoded game can give a next player other than the game's (see the witness).
C28_DecodedStatusIgnoresTurn ==
    last.op = "try_from" /\ last.ret.ret = Ok =>
        /\ \A turn \in Players :
              \E r \in {try_from([last.ret.yen EXCEPT !.turn = turn])} :
                  r.ret = Ok /\ r.game.status = status
        /\ status.kind = "Ongoing" =>
              status.next_player =
                  (IF LastTagged(last.ret.yen.layout) = None THEN 0
                   ELSE 1 - unwrap(LastTagged(last.ret.yen.layout)))

\* an ongoing game was encoded with its next player as the turn and came back
\* from the record with the other player to move
C28_Witness ==
    /\ last.op = "try_from"
    /\ last.ret.ret = Ok
    /\ status.kind = "Ongoing"
    /\ status.next_player # last.ret.yen.turn
    /\ \E c \in Cells(board_size) : engine.state[c] # None


\* ---------------------------------------------------------------- server claims
\* the games a whole request can leave when it runs alone on game g
WholeRequest(route, g) ==
    IF route = "reset" THEN {GameY_new(ResetBoardSize)}
    ELSE UNION {{bot_turn(h, choice) : choice \in choose_move(h)} :
                   h \in {human_turn(g, index).game : index \in HumanIndices(g.board_size)}}

C25_MutualExclusion ==
    /\ \A r \in Requests : requests[r].pc \in InCriticalSection <=> mutex = Some(r)
    /\ \A r, q \in Requests :
          requests[r].pc \in InCriticalSection /\ requests[q].pc \in InCriticalSection
              => r = q

C25_WholeRequests ==
    /\ game' # game =>
          \E r \in Requests :
              /\ mutex = Some(r) /\ mutex' = Some(r)
              /\ \A q \in Requests \ {r} : requests'[q] = requests[q]
    /\ \A r \in Requests :
          requests[r].pc \in InCriticalSection /\ requests'[r].pc = "done" =>
              game' \in WholeRequest(requests[r].route, unwrap(requests[r].entry))
    /\ \A r \in Requests :
          requests[r].pc \in InCriticalSection /\ requests'[r].pc \in InCriticalSection =>
              \A q \in Requests \ {r} :
                  requests'[q] = requests[q] \/ requests'[q].pc = "lock"

\* C25: requests to the shared game are serialised by its mutex: at most one
\* request is between lock and reply; while it is there only that request changes
\* the game, the others at most arrive and wait; and when it replies the game is
\* what the whole request, human placement and bot reply or reset, makes of the
\* game it found when it took the mutex, so every reachable game is the result of
\* running the requests one after another in the order they took the mutex.
C25_RequestsSerialised == []C25_MutualExclusion /\ [][C25_WholeRequests]_vars

\* one execute-move request waits for the mutex while another, which has placed the
\* human piece, is about to let the bot answer
C25_Witness ==
    \E r, q \in Requests :
        /\ requests[r].route = "execute-move" /\ requests[r].pc = "bot"
        /\ requests[q].route = "execute-move" /\ requests[q].pc = "lock"
        /\ mutex = Some(r)
        /\ requests[r].human = Some(Ok)

\* the cells of a game that are free
FreeCells(g) == {c \in Cells(g.board_size) : g.engine.state[c] = None}

C29_BotStep ==
    \A r \in Requests :
        requests[r].pc = "bot" /\ requests'[r].pc = "reply" =>
            IF status.kind = "Finished" \/ FreeCells(game) = {}
            THEN game' = game
            ELSE \E c \in FreeCells(game) :
                    /\ engine'.state = [engine.state EXCEPT ![c] = Some(1)]
                    /\ history' = history \o << Placement(1, from_index(c, board_size)) >>
                    /\ board_size' = board_size

C29_HumanStep ==
    \A r \in Requests :
        requests[r].pc = "human" /\ requests'[r].pc # "human" =>
            /\ requests'[r].pc = "bot"
            /\ requests'[r].human # Some(Ok) => game' = game

\* C29: in one execute-move request the step that follows the human attempt is the
\* bot's turn, whatever the attempt returned, and a rejected attempt leaves the
\* game as it was; the bot's turn changes nothing when the game is over after the
\* human's attempt (or no cell is free) and otherwise places exactly one piece of
\* player 1 on a free cell, so a rejected human move on an ongoing game with free
\* cells still results in one bot piece.
C29_BotAnswersUnlessGameOver == [][C29_HumanStep /\ C29_BotStep]_vars

\* the human placement was rejected as Occupied and the bot placed a piece
C29_Witness ==
    \E r \in Requests :
        /\ requests[r].pc = "reply"
        /\ requests[r].route = "execute-move"
        /\ requests[r].human # None
        /\ unwrap(requests[r].human).kind = "Occupied"
        /\ status.kind = "Ongoing"
        /\ last = Call("add_move", Ok)
        /\ Len(history) = 3
        /\ history[3].player = 1
        /\ FreeCells(game) # {}

====
